---- MODULE Spec2Model ----
(***************************************************************************)
(* Position ledger (src/simulator.py, class TradingSimulator), its         *)
(* persistence in app_settings.json, and the dual-mode execution facade    *)
(* with its periodic monitor (src/mt5_bridge.py, class MT5Bridge).         *)
(*                                                                         *)
(* Units.  A price is an integer number of price units.  A tick size is an *)
(* integer number of 0.00001 price units (so 0.00001 is 1 and 1.0 is       *)
(* 100000).  Money is an integer number of mills (1/1000 of the account    *)
(* currency), so that round(x, 2) is a real conversion.  The timestamps    *)
(* (open_time, close_time, last_updated) and the write-only legacy file    *)
(* simulator_positions.json are left out: no operation reads them back     *)
(* into the ledger.                                                        *)
(***************************************************************************)
EXTENDS Integers, Sequences, FiniteSets, TLC

VARIABLES
    positions,         \* TradingSimulator.positions: list of open positions
    closed_positions,  \* TradingSimulator.closed_positions: list, append order
    next_ticket,       \* TradingSimulator.next_ticket
    initial_balance,   \* TradingSimulator.initial_balance (mills)
    app_settings,      \* the durable record app_settings.json
    simulator_mode,    \* MT5Bridge.simulator_mode
    connected_to_mt5,  \* MT5Bridge.connected_to_mt5
    market,            \* the provider: current tick and symbol table
    ret,               \* the last call and what it returned
    issued,            \* tickets open_position returned since the last reset
    closed_by_monitor, \* tickets a monitor scan closed since construction/reset
    monitor_running    \* the position_monitor task is in its loop

vars == <<positions, closed_positions, next_ticket, initial_balance, app_settings,
          simulator_mode, connected_to_mt5, market, ret, issued, closed_by_monitor,
          monitor_running>>

ledgerVars == <<positions, closed_positions, next_ticket, initial_balance>>

bridgeVars == <<simulator_mode, connected_to_mt5, market, closed_by_monitor,
                monitor_running>>

-----------------------------------------------------------------------------
(* Bounds and input sets *)

\* Opens allowed in one ledger lifetime (between two resets / restarts).
MaxOpens == 2

TicketBase == 1000000

DefaultBalance == 10000000

\* Python None for an optional number (every real value here is >= 0).
None == -1

Symbols == {"EURUSD", "US30.cash"}

\* (symbol, side, volume) of the orders a client places; the last one carries a
\* non-positive volume
Orders ==
    { [symbol |-> "EURUSD",    type |-> "BUY",  volume |-> 1],
      [symbol |-> "EURUSD",    type |-> "SELL", volume |-> 1],
      [symbol |-> "US30.cash", type |-> "BUY",  volume |-> 1],
      [symbol |-> "US30.cash", type |-> "SELL", volume |-> 0] }

Prices == {1, 2, 3}

\* entry price of the orders opened directly on the ledger
OpenPrices == {2}

SLTP == {0, 2}

\* 10000.00 and 5000.004
Balances == {10000000, 5000004}

\* (tick_size, tick_value, contract_size) of each instrument: a forex pair with
\* tick size 0.00001 and an index with tick size 1.0.
TickParamsOf(symbol) ==
    IF symbol = "EURUSD"
    THEN [tick_size |-> 1,      tick_value |-> 1, contract_size |-> 100000]
    ELSE [tick_size |-> 100000, tick_value |-> 1, contract_size |-> 1]

NoParams == [tick_size |-> None, tick_value |-> None, contract_size |-> None]

-----------------------------------------------------------------------------
(* Helpers *)

Range(s) == { s[i] : i \in DOMAIN s }

Tickets(s) == { s[i].ticket : i \in DOMAIN s }

ClosedTicketsOf(s) == Tickets(s.closed_positions)

RECURSIVE SumProfit(_)
SumProfit(s) == IF s = <<>> THEN 0 ELSE Head(s).profit + SumProfit(Tail(s))

RemoveAt(s, i) == SubSeq(s, 1, i - 1) \o SubSeq(s, i + 1, Len(s))

\* round(x, 2) on mills: to the nearest multiple of 10, exact ties to even.
Round2(x) ==
    LET r == x % 10
        lo == x - r
    IN  IF r < 5 THEN lo
        ELSE IF r > 5 THEN lo + 10
        ELSE IF (lo \div 10) % 2 = 0 THEN lo ELSE lo + 10

\* The ledger object as one value.
Sim == [positions |-> positions, closed_positions |-> closed_positions,
        next_ticket |-> next_ticket, initial_balance |-> initial_balance,
        file |-> app_settings]

Ledger(s) == [positions |-> s.positions, closed_positions |-> s.closed_positions,
              next_ticket |-> s.next_ticket, initial_balance |-> s.initial_balance]

Install(s) ==
    /\ positions' = s.positions
    /\ closed_positions' = s.closed_positions
    /\ next_ticket' = s.next_ticket
    /\ initial_balance' = s.initial_balance
    /\ app_settings' = s.file

-----------------------------------------------------------------------------
(* Persistence adapter *)

MissingFile == [status |-> "missing", simulator |-> <<>>, simulatorMode |-> <<>>]

CorruptFile == [status |-> "corrupt", simulator |-> <<>>, simulatorMode |-> <<>>]

\* save_positions: read the record, replace its simulator section, write it back.
\* A record that does not parse raises in the inner read (not FileNotFoundError);
\* the outer handler prints and nothing is written.
\* save_positions writing a record that holds the simulator section alone
save_positions_overwrites(s) ==
    IF s.file.status = "corrupt" THEN s
    ELSE [s EXCEPT !.file = [status |-> "ok",
                             simulator |-> << Ledger(s) >>,
                             simulatorMode |-> << >>]]

save_positions(s) ==
    IF s.file.status = "corrupt" THEN s
    ELSE [s EXCEPT !.file = [status |-> "ok",
                             simulator |-> << Ledger(s) >>,
                             simulatorMode |-> s.file.simulatorMode]]

\* __init__ before load_positions
NewSimulator(file) ==
    [positions |-> <<>>, closed_positions |-> <<>>, next_ticket |-> TicketBase,
     initial_balance |-> DefaultBalance, file |-> file]

\* load_positions that restores the collections but not the ticket counter
load_positions_keeps_counter(s) ==
    IF s.file.status # "ok" \/ s.file.simulator = <<>> THEN s
    ELSE LET simulator_data == s.file.simulator[1]
         IN  [s EXCEPT !.positions = simulator_data.positions,
                       !.closed_positions = simulator_data.closed_positions,
                       !.initial_balance = simulator_data.initial_balance]

\* load_positions on a freshly constructed object
load_positions(s) ==
    IF s.file.status = "missing" THEN s
    ELSE IF s.file.status = "corrupt"
         THEN [s EXCEPT !.positions = <<>>, !.closed_positions = <<>>]
    ELSE IF s.file.simulator = <<>> THEN s
    ELSE LET simulator_data == s.file.simulator[1]
         IN  [s EXCEPT !.positions = simulator_data.positions,
                       !.closed_positions = simulator_data.closed_positions,
                       !.next_ticket = simulator_data.next_ticket,
                       !.initial_balance = simulator_data.initial_balance]

Construct(file) == load_positions(NewSimulator(file))

-----------------------------------------------------------------------------
(* Price model *)

\* price_diff taking the BUY branch for both sides
price_diff_buy_branch_only(type, open_price, price) ==
    price - open_price

price_diff(type, open_price, price) ==
    IF type = "BUY" THEN price - open_price ELSE open_price - price

\* (price_diff / tick_size) * volume * tick_value, in mills
TickProfit(diff, volume, tick_size, tick_value) ==
    (diff * 100000 * volume * tick_value * 1000) \div tick_size

\* price_diff * volume * contract_size, in mills
ContractProfit(diff, volume, contract_size) ==
    diff * volume * contract_size * 1000

\* UpdateProfit adding to the stored profit instead of replacing it
UpdateProfit_accumulating(pos, price, contract_size, tick_value, tick_size) ==
    LET diff == price_diff(pos.type, pos.open_price, price)
    IN  IF tick_size > 0
        THEN pos.profit + TickProfit(diff, pos.volume, tick_size, tick_value)
        ELSE pos.profit + ContractProfit(diff, pos.volume, contract_size)

UpdateProfit(pos, price, contract_size, tick_value, tick_size) ==
    LET diff == price_diff(pos.type, pos.open_price, price)
    IN  IF tick_size > 0
        THEN TickProfit(diff, pos.volume, tick_size, tick_value)
        ELSE ContractProfit(diff, pos.volume, contract_size)

CloseProfit(pos, close_price, tick_size, tick_value, contract_size) ==
    LET diff == price_diff(pos.type, pos.open_price, close_price)
    IN  IF tick_size # None /\ tick_value # None /\ tick_size > 0
        THEN TickProfit(diff, pos.volume, tick_size, tick_value)
        ELSE IF contract_size # None
        THEN ContractProfit(diff, pos.volume, contract_size)
        ELSE ContractProfit(diff, pos.volume, 100000)

-----------------------------------------------------------------------------
(* Position ledger *)

\* get_next_ticket without the increment
get_next_ticket_no_increment(s) ==
    [ticket |-> s.next_ticket, sim |-> save_positions(s)]

get_next_ticket(s) ==
    [ticket |-> s.next_ticket,
     sim |-> save_positions([s EXCEPT !.next_ticket = @ + 1])]

open_position(s, symbol, order_type, volume, open_price, sl, tp) ==
    LET t == get_next_ticket(s)
        position == [ticket |-> t.ticket, symbol |-> symbol, type |-> order_type,
                     volume |-> volume, open_price |-> open_price,
                     current_price |-> open_price, sl |-> sl, tp |-> tp,
                     profit |-> 0]
    IN  [sim |-> save_positions([t.sim EXCEPT !.positions = Append(@, position)]),
         result |-> [success |-> TRUE, ticket |-> t.ticket, price |-> open_price]]

\* update_position_prices without the symbol test: every open position is repriced
update_position_prices_every_symbol(s, symbol, current_price, contract_size, tick_value, tick_size) ==
    save_positions(
        [s EXCEPT !.positions =
            [i \in DOMAIN s.positions |->
                [s.positions[i] EXCEPT
                    !.current_price = current_price,
                    !.profit = UpdateProfit(s.positions[i], current_price,
                                            contract_size, tick_value, tick_size)]]])

\* update_position_prices that also reprices the closed records of the symbol
update_position_prices_reprices_history(s, symbol, current_price, contract_size, tick_value, tick_size) ==
    LET Reprice(list) ==
            [i \in DOMAIN list |->
                IF list[i].symbol = symbol
                THEN [list[i] EXCEPT
                        !.current_price = current_price,
                        !.profit = UpdateProfit(list[i], current_price,
                                                contract_size, tick_value, tick_size)]
                ELSE list[i]]
    IN  save_positions([s EXCEPT !.positions = Reprice(s.positions),
                                 !.closed_positions = Reprice(s.closed_positions)])

\* update_position_prices that returns without calling save_positions
update_position_prices_no_save(s, symbol, current_price, contract_size, tick_value, tick_size) ==
    [s EXCEPT !.positions =
        [i \in DOMAIN s.positions |->
            IF s.positions[i].symbol = symbol
            THEN [s.positions[i] EXCEPT
                    !.current_price = current_price,
                    !.profit = UpdateProfit(s.positions[i], current_price,
                                            contract_size, tick_value, tick_size)]
            ELSE s.positions[i]]]

update_position_prices(s, symbol, current_price, contract_size, tick_value, tick_size) ==
    save_positions(
        [s EXCEPT !.positions =
            [i \in DOMAIN s.positions |->
                IF s.positions[i].symbol = symbol
                THEN [s.positions[i] EXCEPT
                        !.current_price = current_price,
                        !.profit = UpdateProfit(s.positions[i], current_price,
                                                contract_size, tick_value, tick_size)]
                ELSE s.positions[i]]])

\* FindTicket falling back to the last open position when no ticket matches
FindTicket_or_last(s, ticket) ==
    IF \E i \in DOMAIN s.positions : s.positions[i].ticket = ticket
    THEN CHOOSE i \in DOMAIN s.positions : s.positions[i].ticket = ticket
    ELSE Len(s.positions)

\* index of the first open position with this ticket, 0 when there is none
FindTicket(s, ticket) ==
    IF \E i \in DOMAIN s.positions : s.positions[i].ticket = ticket
    THEN CHOOSE i \in DOMAIN s.positions :
            /\ s.positions[i].ticket = ticket
            /\ \A j \in 1..(i - 1) : s.positions[j].ticket # ticket
    ELSE 0

NotFound == [success |-> FALSE, error |-> "Position not found"]

\* close_position that appends to the history without removing from the open list
close_position_no_pop(s, ticket, close_price, tick_size, tick_value, contract_size) ==
    LET i == FindTicket(s, ticket)
    IN  IF i = 0 THEN [sim |-> s, result |-> NotFound]
        ELSE LET pos == s.positions[i]
                 closed == [ticket |-> pos.ticket, symbol |-> pos.symbol,
                            type |-> pos.type, volume |-> pos.volume,
                            open_price |-> pos.open_price,
                            current_price |-> close_price, sl |-> pos.sl,
                            tp |-> pos.tp,
                            profit |-> CloseProfit(pos, close_price, tick_size,
                                                   tick_value, contract_size),
                            close_price |-> close_price]
             IN  [sim |-> save_positions(
                            [s EXCEPT !.closed_positions = Append(@, closed)]),
                  result |-> [success |-> TRUE]]

close_position(s, ticket, close_price, tick_size, tick_value, contract_size) ==
    LET i == FindTicket(s, ticket)
    IN  IF i = 0 THEN [sim |-> s, result |-> NotFound]
        ELSE LET pos == s.positions[i]
                 closed == [ticket |-> pos.ticket, symbol |-> pos.symbol,
                            type |-> pos.type, volume |-> pos.volume,
                            open_price |-> pos.open_price,
                            current_price |-> close_price, sl |-> pos.sl,
                            tp |-> pos.tp,
                            profit |-> CloseProfit(pos, close_price, tick_size,
                                                   tick_value, contract_size),
                            close_price |-> close_price]
             IN  [sim |-> save_positions(
                            [s EXCEPT !.positions = RemoveAt(@, i),
                                      !.closed_positions = Append(@, closed)]),
                  result |-> [success |-> TRUE]]

\* modify_position testing the truth value of sl and tp: 0 counts as absent
modify_position_zero_as_absent(s, ticket, sl, tp) ==
    LET i == FindTicket(s, ticket)
    IN  IF i = 0 THEN [sim |-> s, result |-> NotFound]
        ELSE [sim |-> save_positions(
                        [s EXCEPT !.positions[i].sl =
                                      IF sl # None /\ sl # 0 THEN sl ELSE @,
                                  !.positions[i].tp =
                                      IF tp # None /\ tp # 0 THEN tp ELSE @]),
              result |-> [success |-> TRUE]]

modify_position(s, ticket, sl, tp) ==
    LET i == FindTicket(s, ticket)
    IN  IF i = 0 THEN [sim |-> s, result |-> NotFound]
        ELSE [sim |-> save_positions(
                        [s EXCEPT !.positions[i].sl = IF sl # None THEN sl ELSE @,
                                  !.positions[i].tp = IF tp # None THEN tp ELSE @]),
              result |-> [success |-> TRUE]]

\* get_account_summary with the balance kept from the start of the account,
\* not recomputed from the closed history
get_account_summary_stale_balance(s) ==
    LET total_profit == SumProfit(s.positions)
        balance == s.initial_balance
        equity == balance + total_profit
    IN  [balance |-> Round2(balance), equity |-> Round2(equity),
         profit |-> Round2(total_profit), margin |-> 0,
         free_margin |-> Round2(equity)]

get_account_summary(s) ==
    LET total_profit == SumProfit(s.positions)
        closed_profit == SumProfit(s.closed_positions)
        balance == s.initial_balance + closed_profit
        equity == balance + total_profit
    IN  [balance |-> Round2(balance), equity |-> Round2(equity),
         profit |-> Round2(total_profit), margin |-> 0,
         free_margin |-> Round2(equity)]

\* get_closed_positions: copies of the closed records, profit rounded to two
\* decimals, most recently closed first (every record is inside the look-back
\* window)
get_closed_positions(s) ==
    LET n == Len(s.closed_positions)
    IN  [k \in 1..n |->
            LET pos == s.closed_positions[n + 1 - k]
            IN  [ticket |-> pos.ticket, symbol |-> pos.symbol, type |-> pos.type,
                 volume |-> pos.volume, open_price |-> pos.open_price,
                 close_price |-> pos.close_price, profit |-> Round2(pos.profit)]]

\* reset_simulator that clears the open list and the counter but not the history
reset_simulator_keeps_history(s, balance) ==
    save_positions([s EXCEPT !.positions = <<>>, !.next_ticket = TicketBase,
                             !.initial_balance = balance])

\* reset_simulator that leaves the ticket counter where it is
reset_simulator_keeps_counter(s, balance) ==
    save_positions([s EXCEPT !.positions = <<>>, !.closed_positions = <<>>,
                             !.initial_balance = balance])

reset_simulator(s, balance) ==
    save_positions([s EXCEPT !.positions = <<>>, !.closed_positions = <<>>,
                             !.next_ticket = TicketBase,
                             !.initial_balance = balance])

-----------------------------------------------------------------------------
(* Auto-close monitor *)

\* CloseReason with the stop-loss test ahead of the take-profit test
CloseReason_sl_first(position) ==
    LET current_price == position.current_price
        tp == position.tp
        sl == position.sl
    IN  IF position.type = "BUY"
        THEN IF sl > 0 /\ current_price <= sl THEN "Stop Loss"
             ELSE IF tp > 0 /\ current_price >= tp THEN "Take Profit"
             ELSE ""
        ELSE IF sl > 0 /\ current_price >= sl THEN "Stop Loss"
             ELSE IF tp > 0 /\ current_price <= tp THEN "Take Profit"
             ELSE ""

\* the TP/SL decision of one scan for one position: "" means keep it open
CloseReason(position) ==
    LET current_price == position.current_price
        tp == position.tp
        sl == position.sl
    IN  IF position.type = "BUY"
        THEN IF tp > 0 /\ current_price >= tp THEN "Take Profit"
             ELSE IF sl > 0 /\ current_price <= sl THEN "Stop Loss"
             ELSE ""
        ELSE IF tp > 0 /\ current_price <= tp THEN "Take Profit"
             ELSE IF sl > 0 /\ current_price >= sl THEN "Stop Loss"
             ELSE ""

\* symbol_info_map.get(symbol, {}) if symbol_info_map else {}, then .get(key)
SymbolInfoOf(symbol_info_map, symbol) ==
    IF symbol \in DOMAIN symbol_info_map THEN symbol_info_map[symbol] ELSE NoParams

\* first loop of check_tp_sl_hits leaving the loop at the first hit
PositionsToClose_first_hit_only(s, symbol_info_map) ==
    LET hit == SelectSeq(s.positions, LAMBDA p : CloseReason(p) # "")
    IN  [i \in DOMAIN hit \cap {1} |->
            [ticket |-> hit[i].ticket, close_price |-> hit[i].current_price,
             reason |-> CloseReason(hit[i]),
             info |-> SymbolInfoOf(symbol_info_map, hit[i].symbol)]]

\* first loop of check_tp_sl_hits
PositionsToClose(s, symbol_info_map) ==
    LET hit == SelectSeq(s.positions, LAMBDA p : CloseReason(p) # "")
    IN  [i \in DOMAIN hit |->
            [ticket |-> hit[i].ticket, close_price |-> hit[i].current_price,
             reason |-> CloseReason(hit[i]),
             info |-> SymbolInfoOf(symbol_info_map, hit[i].symbol)]]

\* second loop of check_tp_sl_hits
RECURSIVE CloseHits(_, _, _)
CloseHits(s, to_close, closed_tickets) ==
    IF to_close = <<>> THEN [sim |-> s, result |-> closed_tickets]
    ELSE LET e == Head(to_close)
         IN  CHOOSE out \in
                 { CloseHits(r.sim, Tail(to_close),
                             IF r.result.success
                             THEN Append(closed_tickets,
                                         [ticket |-> e.ticket,
                                          reason |-> e.reason])
                             ELSE closed_tickets) :
                     r \in { close_position(s, e.ticket, e.close_price,
                                            e.info.tick_size, e.info.tick_value,
                                            e.info.contract_size) } } : TRUE

check_tp_sl_hits(s, symbol_info_map) ==
    CloseHits(s, PositionsToClose(s, symbol_info_map), <<>>)

-----------------------------------------------------------------------------
(* The ledger driven directly through the TradingSimulator methods *)

TicketIds == TicketBase .. (TicketBase + MaxOpens)

\* symbol_info_map arguments: none, and one entry per symbol
InfoMaps ==
    { << >>, [sym \in Symbols |-> TickParamsOf(sym)] }

\* tick parameters a caller may pass when closing this ticket
CloseParams(ticket) ==
    {NoParams} \cup { TickParamsOf(positions[i].symbol) :
                        i \in { j \in DOMAIN positions : positions[j].ticket = ticket } }

InitFiles == { MissingFile }

InitLedger ==
    /\ app_settings \in InitFiles
    /\ positions = Construct(app_settings).positions
    /\ closed_positions = Construct(app_settings).closed_positions
    /\ next_ticket = Construct(app_settings).next_ticket
    /\ initial_balance = Construct(app_settings).initial_balance
    /\ simulator_mode = FALSE
    /\ connected_to_mt5 = FALSE
    /\ market = [sym \in Symbols |-> << >>]
    /\ closed_by_monitor = {}
    /\ monitor_running = TRUE
    /\ ret = [op |-> "init"]
    /\ issued = {}

LedgerOpen ==
    /\ next_ticket < TicketBase + MaxOpens
    /\ \E o \in Orders, open_price \in OpenPrices, sl \in SLTP, tp \in SLTP :
            LET r == open_position(Sim, o.symbol, o.type, o.volume, open_price, sl, tp)
            IN  /\ Install(r.sim)
                /\ ret' = [op |-> "open", ticket |-> r.result.ticket,
                           success |-> r.result.success]
                /\ issued' = issued \cup {r.result.ticket}
    /\ UNCHANGED bridgeVars

LedgerUpdatePrice ==
    /\ \E symbol \in Symbols, price \in Prices :
            LET p == TickParamsOf(symbol)
            IN  /\ Install(update_position_prices(Sim, symbol, price, p.contract_size,
                                                  p.tick_value, p.tick_size))
                /\ ret' = [op |-> "updatePrice"]
    /\ UNCHANGED <<bridgeVars, issued>>

LedgerClose ==
    /\ \E ticket \in TicketIds, price \in Prices :
       \E p \in CloseParams(ticket) :
            LET r == close_position(Sim, ticket, price, p.tick_size, p.tick_value,
                                    p.contract_size)
            IN  /\ Install(r.sim)
                /\ ret' = [op |-> "close", success |-> r.result.success]
    /\ UNCHANGED <<bridgeVars, issued>>

LedgerModify ==
    /\ \E ticket \in TicketIds, sl \in SLTP \cup {None}, tp \in SLTP \cup {None} :
            LET r == modify_position(Sim, ticket, sl, tp)
            IN  /\ Install(r.sim)
                /\ ret' = [op |-> "modify", success |-> r.result.success]
    /\ UNCHANGED <<bridgeVars, issued>>

LedgerScan ==
    /\ \E m \in InfoMaps :
            LET r == check_tp_sl_hits(Sim, m)
            IN  /\ Install(r.sim)
                /\ ret' = [op |-> "scan", closed |-> r.result]
    /\ UNCHANGED <<bridgeVars, issued>>

LedgerReset ==
    /\ \E b \in Balances :
            /\ Install(reset_simulator(Sim, b))
            /\ ret' = [op |-> "reset", balance |-> b]
    /\ issued' = {}
    /\ UNCHANGED bridgeVars

LedgerSummary ==
    /\ ret' = [op |-> "accountSummary", summary |-> get_account_summary(Sim)]
    /\ UNCHANGED <<ledgerVars, app_settings, bridgeVars, issued>>

\* the process ends and a new TradingSimulator is constructed on the same
\* record; the tickets clients were given stay given
LedgerRestart ==
    /\ Install(Construct(app_settings))
    /\ ret' = [op |-> "init"]
    /\ UNCHANGED <<bridgeVars, issued>>

\* the process ends inside open_position, after get_next_ticket has saved and
\* before the position is appended; no ticket was returned
LedgerOpenInterrupted ==
    /\ next_ticket < TicketBase + MaxOpens
    /\ Install(Construct(get_next_ticket(Sim).sim.file))
    /\ ret' = [op |-> "init"]
    /\ UNCHANGED <<bridgeVars, issued>>

NextLedger ==
    \/ LedgerOpen
    \/ LedgerUpdatePrice
    \/ LedgerClose
    \/ LedgerModify
    \/ LedgerScan
    \/ LedgerReset
    \/ LedgerSummary

SpecLedger == InitLedger /\ [][NextLedger]_vars

-----------------------------------------------------------------------------
(* The ledger over process restarts, on a record that may be unreadable *)

\* app_settings.json when the first process starts: absent, or present and
\* not parseable
RestartFiles == {MissingFile, CorruptFile}

InitRestart ==
    /\ app_settings \in RestartFiles
    /\ positions = Construct(app_settings).positions
    /\ closed_positions = Construct(app_settings).closed_positions
    /\ next_ticket = Construct(app_settings).next_ticket
    /\ initial_balance = Construct(app_settings).initial_balance
    /\ simulator_mode = FALSE
    /\ connected_to_mt5 = FALSE
    /\ market = [sym \in Symbols |-> << >>]
    /\ closed_by_monitor = {}
    /\ monitor_running = TRUE
    /\ ret = [op |-> "init"]
    /\ issued = {}

NextRestart ==
    \/ LedgerOpen
    \/ LedgerUpdatePrice
    \/ LedgerClose
    \/ LedgerReset
    \/ LedgerRestart
    \/ LedgerOpenInterrupted

SpecRestart == InitRestart /\ [][NextRestart]_vars

-----------------------------------------------------------------------------
(* Market data provider (the MetaTrader5 module), as the bridge reads it *)

\* a tick per symbol, << >> when symbol_info_tick returns None
Ticks == { [bid |-> 1, ask |-> 2], [bid |-> 3, ask |-> 3] }

\* the quotes the provider moves between: both symbols quoted at the same
\* tick, or the forex pair without a quote
TickStates ==
    { [sym \in Symbols |-> <<k>>] : k \in Ticks } \cup
    { [sym \in Symbols |-> IF sym = "EURUSD" THEN << >> ELSE <<[bid |-> 1, ask |-> 2]>>] }

\* str.upper(), '.cash' in symbol.lower(), symbol.split('.')[0]
Upper(symbol) == IF symbol = "US30.cash" THEN "US30.CASH" ELSE symbol

IsCash(symbol) == symbol = "US30.cash"

BaseSymbol(symbol) == IF symbol = "US30.cash" THEN "US30" ELSE symbol

\* mt5.symbol_info(name): the provider knows the forex pair and no spelling of
\* the index
ProviderSymbolInfo(name) ==
    IF name = "EURUSD"
    THEN << [trade_tick_size |-> 1, point |-> 1, trade_tick_value |-> 1,
             trade_contract_size |-> 100000] >>
    ELSE << >>

\* the three look-ups the bridge tries: exact name, upper case, base symbol
LookupSymbolInfo(symbol) ==
    IF ProviderSymbolInfo(symbol) # << >> THEN ProviderSymbolInfo(symbol)
    ELSE IF ProviderSymbolInfo(Upper(symbol)) # << >>
         THEN ProviderSymbolInfo(Upper(symbol))
    ELSE IF IsCash(symbol) THEN ProviderSymbolInfo(BaseSymbol(symbol))
    ELSE << >>

\* Python's x or y on numbers
PyOr(x, y) == IF x # 0 THEN x ELSE y

\* tick parameters get_positions passes to update_position_prices
RefreshParams(symbol) ==
    LET symbol_info == LookupSymbolInfo(symbol)
    IN  IF symbol_info # << >>
        THEN [contract_size |-> PyOr(symbol_info[1].trade_contract_size, 100000),
              tick_value |-> PyOr(symbol_info[1].trade_tick_value, 1),
              tick_size |-> PyOr(symbol_info[1].trade_tick_size,
                                 PyOr(symbol_info[1].point, 1))]
        ELSE IF IsCash(symbol)
        THEN [contract_size |-> 1, tick_value |-> 1, tick_size |-> 100000]
        ELSE [contract_size |-> 100000, tick_value |-> 1, tick_size |-> 1]

\* the symbol_info_map get_positions hands to check_tp_sl_hits
SymbolInfoMap(s) ==
    LET known == { sym \in { s.positions[i].symbol : i \in DOMAIN s.positions } :
                      LookupSymbolInfo(sym) # << >> }
    IN  [sym \in known |->
            LET symbol_info == LookupSymbolInfo(sym)[1]
            IN  [tick_size |-> PyOr(symbol_info.trade_tick_size,
                                    PyOr(symbol_info.point, None)),
                 tick_value |-> PyOr(symbol_info.trade_tick_value, None),
                 contract_size |-> PyOr(symbol_info.trade_contract_size, None)]]

\* tick parameters the bridge's close_position passes to the ledger
ClientCloseParams(symbol) ==
    LET symbol_info == LookupSymbolInfo(symbol)
    IN  IF symbol_info # << >>
        THEN [tick_size |-> PyOr(symbol_info[1].trade_tick_size,
                                 PyOr(symbol_info[1].point, None)),
              tick_value |-> PyOr(symbol_info[1].trade_tick_value, None),
              contract_size |-> PyOr(symbol_info[1].trade_contract_size, None)]
        ELSE IF IsCash(symbol)
        THEN [tick_size |-> 100000, tick_value |-> 1, contract_size |-> 1]
        ELSE [tick_size |-> 1, tick_value |-> 1, contract_size |-> 100000]

-----------------------------------------------------------------------------
(* Execution facade *)

Err(msg) == [success |-> FALSE, error |-> msg]

\* the forwarded call in live mode: the provider's answer, the ledger untouched
Live == [live |-> TRUE]

\* price refresh loop of get_positions: one update_position_prices per open
\* position, in list order, at the bid for a BUY and the ask for a SELL
RECURSIVE RefreshPrices(_, _, _)
RefreshPrices(s, ticks, i) ==
    IF i > Len(s.positions) THEN s
    ELSE LET pos == s.positions[i]
             tick == ticks[pos.symbol]
         IN  IF tick = << >> THEN RefreshPrices(s, ticks, i + 1)
             ELSE LET current_price == IF pos.type = "BUY" THEN tick[1].bid
                                                            ELSE tick[1].ask
                      p == RefreshParams(pos.symbol)
                  \* the loop goes on with the ledger the update left
                  IN  CHOOSE r \in
                          { RefreshPrices(u, ticks, i + 1) :
                              u \in { update_position_prices(
                                          s, pos.symbol, current_price,
                                          p.contract_size, p.tick_value,
                                          p.tick_size) } } : TRUE

\* get_positions in simulator mode
bridge_get_positions(s, ticks, connected) ==
    IF connected
    THEN CHOOSE r \in
            { check_tp_sl_hits(refreshed, SymbolInfoMap(refreshed)).sim :
                refreshed \in { RefreshPrices(s, ticks, 1) } } : TRUE
    ELSE s

execute_order(s, ticks, symbol, order_type, volume, sl, tp, execution_type, limit_price) ==
    LET tick == ticks[symbol]
    IN  IF tick = << >>
        THEN [sim |-> s, result |-> Err("Failed to get current price")]
        ELSE LET open_price ==
                    IF execution_type = "LIMIT" /\ limit_price # None /\ limit_price # 0
                    THEN limit_price
                    ELSE IF order_type = "BUY" THEN tick[1].ask ELSE tick[1].bid
             IN  open_position(s, symbol, order_type, volume, open_price, sl, tp)

\* close_position working from a list of positions read before a scan closed
\* the ticket: it writes a second closed record and reports success
bridge_close_position_stale_read(s, ticks, ticket) ==
    LET i == FindTicket(s, ticket)
        old == SelectSeq(s.closed_positions, LAMBDA c : c.ticket = ticket)
    IN  IF i = 0 /\ old # << >>
        THEN [sim |-> save_positions(
                        [s EXCEPT !.closed_positions = Append(@, old[1])]),
              result |-> [success |-> TRUE]]
        ELSE IF i = 0 THEN [sim |-> s, result |-> Err("Position not found")]
        ELSE LET position == s.positions[i]
                 tick == ticks[position.symbol]
             IN  IF tick = << >>
                 THEN [sim |-> s, result |-> Err("Failed to get current price")]
                 ELSE LET close_price == IF position.type = "BUY" THEN tick[1].bid
                                                                  ELSE tick[1].ask
                          p == ClientCloseParams(position.symbol)
                      IN  close_position(s, ticket, close_price, p.tick_size,
                                         p.tick_value, p.contract_size)

bridge_close_position(s, ticks, ticket) ==
    LET i == FindTicket(s, ticket)
    IN  IF i = 0 THEN [sim |-> s, result |-> Err("Position not found")]
        ELSE LET position == s.positions[i]
                 tick == ticks[position.symbol]
             IN  IF tick = << >>
                 THEN [sim |-> s, result |-> Err("Failed to get current price")]
                 ELSE LET close_price == IF position.type = "BUY" THEN tick[1].bid
                                                                  ELSE tick[1].ask
                          p == ClientCloseParams(position.symbol)
                      IN  close_position(s, ticket, close_price, p.tick_size,
                                         p.tick_value, p.contract_size)

\* save_simulator_mode writing a record that holds the mode flag alone
save_simulator_mode_overwrites(file, enabled) ==
    IF file.status = "corrupt" THEN file
    ELSE [status |-> "ok", simulator |-> << >>, simulatorMode |-> <<enabled>>]

\* save_simulator_mode: same read-modify-write of the record as save_positions
save_simulator_mode(file, enabled) ==
    IF file.status = "corrupt" THEN file
    ELSE [status |-> "ok", simulator |-> file.simulator, simulatorMode |-> <<enabled>>]

load_simulator_mode(file) ==
    IF file.status = "ok" /\ file.simulatorMode # << >> THEN file.simulatorMode[1]
    ELSE FALSE

\* executeOrder requests clients send
OrderRequests ==
    { [symbol |-> "EURUSD", type |-> "BUY", volume |-> 1, stopLoss |-> 0,
       takeProfit |-> 3, executionType |-> "MARKET", limitPrice |-> None],
      [symbol |-> "EURUSD", type |-> "SELL", volume |-> 1, stopLoss |-> 0,
       takeProfit |-> 0, executionType |-> "MARKET", limitPrice |-> None],
      [symbol |-> "US30.cash", type |-> "BUY", volume |-> 1, stopLoss |-> 0,
       takeProfit |-> 3, executionType |-> "MARKET", limitPrice |-> None],
      [symbol |-> "EURUSD", type |-> "BUY", volume |-> 1, stopLoss |-> 1,
       takeProfit |-> 0, executionType |-> "LIMIT", limitPrice |-> 1] }

\* (stopLoss, takeProfit) of the modifyPosition requests clients send
ModifySLTP == { <<0, None>>, <<None, 3>> }

Init ==
    /\ app_settings = MissingFile
    /\ positions = Construct(app_settings).positions
    /\ closed_positions = Construct(app_settings).closed_positions
    /\ next_ticket = Construct(app_settings).next_ticket
    /\ initial_balance = Construct(app_settings).initial_balance
    /\ simulator_mode = load_simulator_mode(app_settings)
    /\ connected_to_mt5 = FALSE
    /\ market \in TickStates
    /\ ret = [op |-> "init"]
    /\ issued = {}
    /\ closed_by_monitor = {}
    /\ monitor_running = TRUE

\* connect_mt5 succeeding
Connect ==
    /\ ~connected_to_mt5
    /\ connected_to_mt5' = TRUE
    /\ ret' = [op |-> "connect"]
    /\ UNCHANGED <<ledgerVars, app_settings, simulator_mode, market, issued,
                   closed_by_monitor, monitor_running>>

\* the provider's quotes change
MarketMove ==
    /\ \E m \in TickStates : m # market /\ market' = m
    /\ UNCHANGED <<ledgerVars, app_settings, simulator_mode, connected_to_mt5, ret,
                   issued, closed_by_monitor, monitor_running>>

ToggleSimulatorMode ==
    /\ \E enabled \in BOOLEAN :
          /\ simulator_mode' = enabled
          /\ app_settings' = save_simulator_mode(app_settings, enabled)
          /\ ret' = [op |-> "toggleSimulatorMode", enabled |-> enabled]
    /\ UNCHANGED <<ledgerVars, connected_to_mt5, market, issued, closed_by_monitor,
                   monitor_running>>

ExecuteOrder ==
    /\ next_ticket < TicketBase + MaxOpens
    /\ \E o \in OrderRequests :
          IF ~connected_to_mt5
          THEN /\ ret' = [op |-> "executeOrder", result |-> Err("Not connected to MT5")]
               /\ UNCHANGED <<ledgerVars, app_settings, issued>>
          ELSE IF ~simulator_mode
          THEN /\ ret' = [op |-> "executeOrder", result |-> Live]
               /\ UNCHANGED <<ledgerVars, app_settings, issued>>
          ELSE LET r == execute_order(Sim, market, o.symbol, o.type, o.volume,
                                      o.stopLoss, o.takeProfit, o.executionType,
                                      o.limitPrice)
               IN  /\ Install(r.sim)
                   /\ ret' = [op |-> "executeOrder", result |-> r.result]
                   /\ issued' = IF r.result.success
                                THEN issued \cup {r.result.ticket} ELSE issued
    /\ UNCHANGED bridgeVars

ClosePosition ==
    /\ \E ticket \in TicketIds :
          IF ~connected_to_mt5
          THEN /\ ret' = [op |-> "closePosition", ticket |-> ticket,
                          result |-> Err("Not connected to MT5")]
               /\ UNCHANGED <<ledgerVars, app_settings>>
          ELSE IF ~simulator_mode
          THEN /\ ret' = [op |-> "closePosition", ticket |-> ticket, result |-> Live]
               /\ UNCHANGED <<ledgerVars, app_settings>>
          ELSE LET r == bridge_close_position(Sim, market, ticket)
               IN  /\ Install(r.sim)
                   /\ ret' = [op |-> "closePosition", ticket |-> ticket,
                              result |-> r.result]
    /\ UNCHANGED <<bridgeVars, issued>>

ModifyPosition ==
    /\ \E ticket \in TicketIds, st \in ModifySLTP :
          IF simulator_mode
          THEN LET r == modify_position(Sim, ticket, st[1], st[2])
               IN  /\ Install(r.sim)
                   /\ ret' = [op |-> "modifyPosition", result |-> r.result]
          ELSE /\ ret' = [op |-> "modifyPosition",
                          result |-> IF connected_to_mt5 THEN Live
                                     ELSE Err("Not connected to MT5")]
               /\ UNCHANGED <<ledgerVars, app_settings>>
    /\ UNCHANGED <<bridgeVars, issued>>

\* the scan inside get_positions, and the tickets it moved to the history
ScanStep(returned) ==
    \E s \in {bridge_get_positions(Sim, market, connected_to_mt5)} :
        /\ Install(s)
        /\ ret' = returned
        /\ closed_by_monitor' =
              closed_by_monitor \cup (Tickets(s.closed_positions) \ ClosedTicketsOf(Sim))

GetPositions ==
    /\ IF simulator_mode
       THEN ScanStep([op |-> "getPositions"])
       ELSE /\ ret' = [op |-> "getPositions"]
            /\ UNCHANGED <<ledgerVars, app_settings, closed_by_monitor>>
    /\ UNCHANGED <<simulator_mode, connected_to_mt5, market, issued, monitor_running>>

\* seconds position_monitor sleeps after a round, and after a round that raised
NormalInterval == 5

ErrorInterval == 10

\* get_positions raises when the provider call it starts with raises: the
\* first symbol_info_tick of the refresh loop in simulator mode, positions_get
\* in live mode
ScanRaises(provider_fails) ==
    provider_fails /\ (simulator_mode => positions # << >>)

\* whether update_position_monitoring raises to its caller: its whole body is
\* inside try / except Exception, which logs and returns
update_position_monitoring_raises(scan_raised) == FALSE

\* the sleep position_monitor takes after a round
MonitorSleep(round_raised) ==
    IF round_raised THEN ErrorInterval ELSE NormalInterval

\* position_monitor with no exception handler at either level: a scan that
\* raises ends the task
position_monitor_continues_unguarded(scan_raised) == ~scan_raised

\* whether position_monitor goes on to its next iteration: the normal path
\* ends in sleep(5), an exception of the round is caught by except Exception
\* and ends in sleep(10); both return to the head of while True
position_monitor_continues(scan_raised) ==
    LET round_raised == update_position_monitoring_raises(scan_raised)
    IN  IF round_raised THEN TRUE ELSE TRUE

\* one round of position_monitor: update_position_monitoring when connected,
\* then the sleep
Monitor ==
    /\ monitor_running
    /\ connected_to_mt5
    /\ \E provider_fails \in BOOLEAN :
          LET scan_raised == ScanRaises(provider_fails)
              returned == [op |-> "monitor", scan_raised |-> scan_raised,
                           sleep |-> MonitorSleep(
                                        update_position_monitoring_raises(scan_raised))]
          IN  /\ IF simulator_mode /\ ~scan_raised
                 THEN ScanStep(returned)
                 ELSE /\ ret' = returned
                      /\ UNCHANGED <<ledgerVars, app_settings, closed_by_monitor>>
              /\ monitor_running' = position_monitor_continues(scan_raised)
    /\ UNCHANGED <<simulator_mode, connected_to_mt5, market, issued>>

GetAccountInfo ==
    /\ ret' = [op |-> "getAccountInfo",
               result |-> IF ~connected_to_mt5 THEN Err("Not connected to MT5")
                          ELSE IF simulator_mode THEN get_account_summary(Sim)
                          ELSE Live]
    /\ UNCHANGED <<ledgerVars, app_settings, bridgeVars, issued>>

GetClosedPositions ==
    /\ ret' = [op |-> "getClosedPositions",
               result |-> IF ~connected_to_mt5 THEN Err("Not connected to MT5")
                          ELSE IF simulator_mode
                          THEN [positions |-> get_closed_positions(Sim)]
                          ELSE Live]
    /\ UNCHANGED <<ledgerVars, app_settings, bridgeVars, issued>>

ResetSimulator ==
    /\ Install(reset_simulator(Sim, DefaultBalance))
    /\ ret' = [op |-> "resetSimulator"]
    /\ issued' = {}
    /\ closed_by_monitor' = {}
    /\ UNCHANGED <<simulator_mode, connected_to_mt5, market, monitor_running>>

Next ==
    \/ Connect
    \/ MarketMove
    \/ ToggleSimulatorMode
    \/ ExecuteOrder
    \/ ClosePosition
    \/ ModifyPosition
    \/ GetPositions
    \/ Monitor
    \/ GetAccountInfo
    \/ GetClosedPositions
    \/ ResetSimulator

Spec == Init /\ [][Next]_vars

\* a monitor round that ran its scan to the end
MonitorScan == Monitor /\ ~ret'.scan_raised

\* the facade with the monitor task scheduled again and again and the
\* provider answering: position_monitor is a task of the server's event loop
\* and wakes up after every sleep
SpecFair == Init /\ [][Next]_vars /\ WF_vars(MonitorScan)

-----------------------------------------------------------------------------
(* Properties of the ledger *)

OpenTickets == Tickets(positions)

ClosedTickets == Tickets(closed_positions)

\* C1: without a reset in between, every ticket open_position returns is strictly
\* greater than every ticket an earlier open_position returned.
C1_TicketsStrictlyIncreasing ==
    [][ (ret'.op = "open" /\ positions' # positions)
            => /\ \A t \in issued : ret'.ticket > t
               /\ issued' = issued \cup {ret'.ticket} ]_vars

C1_Witness ==
    /\ ret.op = "open"
    /\ Cardinality(issued) = MaxOpens
    /\ closed_positions # <<>>

\* C2: open and closed tickets are always disjoint, no ticket has two closed
\* records, and a successful close moves exactly that ticket from the open list
\* to the end of the closed history.
C2_OpenClosedDisjoint ==
    /\ [](/\ OpenTickets \cap ClosedTickets = {}
          /\ \A i, j \in DOMAIN closed_positions :
                closed_positions[i].ticket = closed_positions[j].ticket => i = j)
    /\ [][ (ret'.op = "close" /\ ret'.success)
            => \E t \in OpenTickets :
                /\ Tickets(positions') = OpenTickets \ {t}
                /\ Len(positions') = Len(positions) - 1
                /\ Len(closed_positions') = Len(closed_positions) + 1
                /\ SubSeq(closed_positions', 1, Len(closed_positions)) = closed_positions
                /\ closed_positions'[Len(closed_positions')].ticket = t ]_vars

C2_Witness ==
    /\ ret.op = "close"
    /\ ret.success
    /\ positions # <<>>
    /\ closed_positions # <<>>

\* C3: close and modify on a ticket that is not open return "Position not found"
\* and change neither the ledger nor the persisted record.
C3_NotFoundNoEffect ==
    /\ [](\A t \in TicketIds \ OpenTickets :
            /\ \A price \in Prices, p \in {NoParams} \cup {TickParamsOf(sym) : sym \in Symbols} :
                  close_position(Sim, t, price, p.tick_size, p.tick_value,
                                 p.contract_size) = [sim |-> Sim, result |-> NotFound]
            /\ \A sl \in SLTP \cup {None}, tp \in SLTP \cup {None} :
                  modify_position(Sim, t, sl, tp) = [sim |-> Sim, result |-> NotFound])
    /\ [][ (ret'.op \in {"close", "modify"} /\ ~ret'.success)
            => UNCHANGED <<ledgerVars, app_settings>> ]_vars

C3_Witness ==
    /\ ret.op = "close"
    /\ ~ret.success
    /\ positions # <<>>
    /\ closed_positions # <<>>

\* the closed records carrying a ticket
ClosedRecordsOf(closed, ticket) == { i \in DOMAIN closed : closed[i].ticket = ticket }

\* a step of the facade's closePosition handler in simulator mode
ClientCloseStep ==
    ret'.op = "closePosition" /\ simulator_mode /\ connected_to_mt5 /\ ClosePosition

\* a step that ran the scan of get_positions (client poll or monitor round)
ScanningStep ==
    simulator_mode /\ connected_to_mt5 /\ (GetPositions \/ Monitor)

\* C4: under every interleaving of client requests and monitor scans, a ticket
\* is closed by exactly one of a client close and a monitor close: a client
\* close of a ticket the monitor closed observes "Position not found" and
\* changes nothing, a client close that succeeds takes a ticket no scan closed,
\* a scan closes only tickets that are still open, and every closed ticket has
\* exactly one closed record.
C4_ClientAndMonitorCloseSerialized ==
    [][ /\ \A tk \in Tickets(closed_positions') :
              Cardinality(ClosedRecordsOf(closed_positions', tk)) = 1
        /\ ClientCloseStep =>
              IF ret'.ticket \in ClosedTickets
              THEN /\ ret'.result = NotFound
                   /\ UNCHANGED <<ledgerVars, app_settings>>
              ELSE ret'.result.success =>
                      /\ ret'.ticket \in OpenTickets
                      /\ ret'.ticket \notin closed_by_monitor'
                      /\ ret'.ticket \in Tickets(closed_positions')
        /\ ScanningStep =>
              /\ (closed_by_monitor' \ closed_by_monitor) \subseteq OpenTickets
              /\ \A tk \in closed_by_monitor' \ closed_by_monitor :
                    ClosedRecordsOf(closed_positions', tk) \
                        DOMAIN closed_positions # {}
      ]_vars

\* a client close arrived for a ticket a monitor scan had already closed, and was
\* answered "Position not found"; the ticket has its one closed record
C4_Witness ==
    /\ ret.op = "closePosition"
    /\ ret.ticket \in closed_by_monitor
    /\ ret.result = NotFound
    /\ Cardinality(ClosedRecordsOf(closed_positions, ret.ticket)) = 1

\* C5: the stored profit of every position is sign-correct: for BUY it is positive
\* exactly when current_price > open_price, for SELL exactly when
\* current_price < open_price.
C5_ProfitSignCorrect ==
    \A pos \in Range(positions) \cup Range(closed_positions) :
        IF pos.type = "BUY"
        THEN (pos.profit > 0) <=> (pos.current_price > pos.open_price)
        ELSE (pos.profit > 0) <=> (pos.current_price < pos.open_price)

C7_UpdatePriceIdempotent ==
    \A symbol \in Symbols, price \in Prices :
        LET p == TickParamsOf(symbol)
            once == update_position_prices(Sim, symbol, price, p.contract_size,
                                           p.tick_value, p.tick_size)
            twice == update_position_prices(once, symbol, price, p.contract_size,
                                            p.tick_value, p.tick_size)
        IN  /\ Len(twice.positions) = Len(once.positions)
            /\ \A i \in DOMAIN once.positions :
                  /\ twice.positions[i].profit = once.positions[i].profit
                  /\ twice.positions[i].current_price = once.positions[i].current_price

C7_Witness ==
    /\ ret.op = "updatePrice"
    /\ \E i \in DOMAIN positions :
          /\ positions[i].profit # 0
          /\ positions[i].current_price # positions[i].open_price

\* the take-profit and stop-loss conditions of a position at its stored price
TakeProfitMet(pos) ==
    /\ pos.tp > 0
    /\ IF pos.type = "BUY" THEN pos.current_price >= pos.tp
                           ELSE pos.current_price <= pos.tp

StopLossMet(pos) ==
    /\ pos.sl > 0
    /\ IF pos.type = "BUY" THEN pos.current_price <= pos.sl
                           ELSE pos.current_price >= pos.sl

\* C8: a scan closes every position whose stored price meets both its take-profit
\* and its stop-loss condition, and reports it with reason Take Profit only.
C8_TakeProfitPriority ==
    [][ ret'.op = "scan"
            => \A pos \in Range(positions) :
                (TakeProfitMet(pos) /\ StopLossMet(pos))
                    => /\ pos.ticket \notin Tickets(positions')
                       /\ pos.ticket \in Tickets(closed_positions')
                       /\ \E e \in Range(ret'.closed) :
                             e.ticket = pos.ticket /\ e.reason = "Take Profit"
                       /\ \A e \in Range(ret'.closed) :
                             e.ticket = pos.ticket => e.reason = "Take Profit" ]_vars

C8_Witness ==
    /\ ret.op = "scan"
    /\ \E e \in Range(ret.closed), c \in Range(closed_positions) :
          /\ e.ticket = c.ticket
          /\ e.reason = "Take Profit"
          /\ c.type = "SELL"
          /\ TakeProfitMet(c)
          /\ StopLossMet(c)

\* the open list as get_positions shows it after its price refresh, before its scan
Refreshed == RefreshPrices(Sim, market, 1)

\* the profit the position with this ticket shows in a ledger state
ShownProfit(s, ticket) == s.positions[FindTicket(s, ticket)].profit

\* C9: a record a monitor scan writes right after the price refresh carries the
\* profit the position showed immediately before the scan, i.e. the price-model
\* value at the triggering price under the refresh's tick parameters.
C9_MonitorCloseProfitAsShown ==
    [][ ScanningStep =>
           \A i \in DOMAIN closed_positions' \ DOMAIN closed_positions :
               closed_positions'[i].profit =
                   ShownProfit(Refreshed, closed_positions'[i].ticket)
      ]_vars

NearestCent(a, b) == a % 10 = 0 /\ a - b <= 5 /\ b - a <= 5

C11_SummaryExact ==
    [][ ret'.op = "accountSummary" =>
           /\ ret'.summary.balance = initial_balance + SumProfit(closed_positions)
           /\ ret'.summary.profit = SumProfit(positions)
           /\ ret'.summary.equity = ret'.summary.balance + SumProfit(positions)
           /\ ret'.summary.free_margin = ret'.summary.equity
           /\ UNCHANGED <<ledgerVars, app_settings>>
      ]_vars

\* C11 amended: each reported amount is the stated sum rounded to two decimals
\* (equity rounds the unrounded balance plus the open profit).
C11_SummaryRounded ==
    [][ ret'.op = "accountSummary" =>
           /\ NearestCent(ret'.summary.balance,
                          initial_balance + SumProfit(closed_positions))
           /\ NearestCent(ret'.summary.profit, SumProfit(positions))
           /\ NearestCent(ret'.summary.equity,
                          initial_balance + SumProfit(closed_positions)
                              + SumProfit(positions))
           /\ ret'.summary.free_margin = ret'.summary.equity
           /\ UNCHANGED <<ledgerVars, app_settings>>
      ]_vars

\* a summary taken with realised and unrealised profit on the books
C11_Witness ==
    /\ ret.op = "accountSummary"
    /\ SumProfit(closed_positions) # 0
    /\ SumProfit(positions) # 0
    /\ ret.summary.balance # ret.summary.equity
    /\ ret.summary.balance # Round2(initial_balance)

\* the fields of a position record other than sl and tp
OtherFields(pos) ==
    [f \in (DOMAIN pos) \ {"sl", "tp"} |-> pos[f]]

\* C12: in every reachable state, modify(ticket, sl?, tp?) on an open ticket
\* succeeds and changes only what was supplied: a supplied sl or tp (0
\* included) replaces the stored one, an absent one keeps its value, and the
\* position's other fields, the other positions, the closed history,
\* next_ticket and initial_balance are unchanged.
C12_ModifyChangesOnlySupplied ==
    \A ticket \in OpenTickets, sl \in SLTP \cup {None}, tp \in SLTP \cup {None} :
        LET r == modify_position(Sim, ticket, sl, tp)
            i == FindTicket(Sim, ticket)
        IN  /\ r.result.success
            /\ DOMAIN r.sim.positions = DOMAIN positions
            /\ r.sim.positions[i].sl = (IF sl = None THEN positions[i].sl ELSE sl)
            /\ r.sim.positions[i].tp = (IF tp = None THEN positions[i].tp ELSE tp)
            /\ OtherFields(r.sim.positions[i]) = OtherFields(positions[i])
            /\ \A j \in DOMAIN positions : j # i => r.sim.positions[j] = positions[j]
            /\ r.sim.closed_positions = closed_positions
            /\ r.sim.next_ticket = next_ticket
            /\ r.sim.initial_balance = initial_balance

\* a modify succeeded with two positions open, one of them with a cleared
\* stop-loss next to a set take-profit
C12_Witness ==
    /\ ret.op = "modify"
    /\ ret.success
    /\ Len(positions) = 2
    /\ \E i \in DOMAIN positions : positions[i].sl = 0 /\ positions[i].tp > 0

\* C13: an open with volume <= 0 is rejected before any mutation, so every
\* position in the ledger, open or closed, has volume > 0.
C13_VolumePositive ==
    \A pos \in Range(positions) \cup Range(closed_positions) : pos.volume > 0

\* the last call was a ledger operation that mutates: an open, an updatePrice,
\* a reset, a scan, or a close or modify that found its ticket
ReturnedFromMutation ==
    \/ ret.op \in {"open", "updatePrice", "reset"}
    \/ ret.op \in {"close", "modify"} /\ ret.success
    \/ ret.op = "scan" /\ ret.closed # << >>

\* C14: when a mutating ledger operation returns and the write succeeded, the
\* persisted record's positions, closed history, next_ticket and
\* initial_balance equal the in-memory ledger.
C14_SavedBeforeReturn ==
    ReturnedFromMutation =>
        /\ app_settings.status = "ok"
        /\ app_settings.simulator = << Ledger(Sim) >>

\* an updatePrice returned having changed the profit of an open position
C14_Witness ==
    /\ ret.op = "updatePrice"
    /\ \E pos \in Range(positions) : pos.profit # 0
    /\ app_settings.simulator = << Ledger(Sim) >>

\* the ledger a process holds is the default empty one
DefaultEmptyLedger ==
    Ledger(Sim) = Ledger(NewSimulator(app_settings))

\* C15: start-up on a missing record yields the default empty ledger, and
\* start-up on a corrupt or unreadable record yields a failure, never a ledger
\* that is silently empty.
C15_LoadDefaultsOrFails ==
    ret.op = "init" =>
        /\ app_settings.status = "missing" => DefaultEmptyLedger
        /\ app_settings.status = "corrupt" => ~DefaultEmptyLedger

\* C16: when the durable write of a mutating operation fails, the operation
\* does not report plain success, and the in-memory ledger keeps the mutation.
C16_WriteFailureSurfaced ==
    ret.op = "open" /\ app_settings.status = "corrupt" =>
        /\ ~ret.success
        /\ ret.ticket \in OpenTickets

\* a request or monitor round served while the facade is in live mode
LiveModeStep ==
    /\ ~simulator_mode
    /\ \/ ExecuteOrder
       \/ ModifyPosition
       \/ ClosePosition
       \/ GetPositions
       \/ GetClosedPositions
       \/ GetAccountInfo
       \/ Monitor

\* C17: switching the mode flag in either direction leaves the simulator
\* ledger, in memory and in the record, unchanged; and in live mode no open,
\* modify, close, list or summary request and no monitor round changes it.
C17_ModeIsolation ==
    [][ (ToggleSimulatorMode \/ LiveModeStep) =>
           /\ UNCHANGED ledgerVars
           /\ app_settings'.simulator = app_settings.simulator
      ]_vars

\* a live-mode close was served for a ticket number the simulator ledger also
\* holds, after the mode was switched with positions on the books
C17_Witness ==
    /\ ~simulator_mode
    /\ ret.op = "closePosition"
    /\ ret.result = Live
    /\ ret.ticket \in OpenTickets
    /\ closed_positions # << >>
    /\ app_settings.simulator = << Ledger(Sim) >>

\* the provider has a tick for the symbol and the price is the side of that
\* tick the code uses: the ask to buy and the bid to sell
IsCurrentQuote(symbol, side, price) ==
    /\ market[symbol] # << >>
    /\ price = IF side = "BUY" THEN market[symbol][1].ask ELSE market[symbol][1].bid

\* C18: in simulated mode every position is opened at the current tick of its
\* symbol (ask for BUY, bid for SELL) and every position closed by a client or
\* by the monitor is closed at the current tick (bid for BUY, ask for SELL);
\* without a tick nothing is opened or closed.
C18_OpenAndCloseAtCurrentTick ==
    [][ /\ (simulator_mode /\ connected_to_mt5 /\ ExecuteOrder) =>
              \A i \in DOMAIN positions' \ DOMAIN positions :
                  IsCurrentQuote(positions'[i].symbol, positions'[i].type,
                                 positions'[i].open_price)
        /\ (simulator_mode /\ (ClosePosition \/ GetPositions \/ Monitor)) =>
              \A i \in DOMAIN closed_positions' \ DOMAIN closed_positions :
                  IsCurrentQuote(closed_positions'[i].symbol,
                                 IF closed_positions'[i].type = "BUY"
                                 THEN "SELL" ELSE "BUY",
                                 closed_positions'[i].close_price)
      ]_vars

\* one of the four close conditions holds at the stored current_price
ShouldClose(pos) == TakeProfitMet(pos) \/ StopLossMet(pos)

\* C19: a scan closes an open position if and only if a take-profit or
\* stop-loss condition holds at its stored current_price; the others stay open,
\* unchanged and in order, and the returned list has exactly one
\* {ticket, reason} entry per position closed and none for any other.
C19_ScanClosesExactlyHits ==
    [][ ret'.op = "scan" =>
           LET hits == { pos.ticket : pos \in { p \in Range(positions) : ShouldClose(p) } }
           IN  /\ positions' = SelectSeq(positions, LAMBDA p : ~ShouldClose(p))
               /\ Tickets(closed_positions') \ Tickets(closed_positions) = hits
               /\ Len(closed_positions') = Len(closed_positions) + Cardinality(hits)
               /\ Tickets(ret'.closed) = hits
               /\ Len(ret'.closed) = Cardinality(hits)
               /\ \A e \in Range(ret'.closed) : e.reason \in {"Take Profit", "Stop Loss"}
      ]_vars

\* a scan closed one position and kept one that has neither level set
C19_Witness ==
    /\ ret.op = "scan"
    /\ Len(ret.closed) = 1
    /\ \E pos \in Range(positions) : pos.sl = 0 /\ pos.tp = 0

\* C20: after a monitor round whose scan threw, the wait before the next scan
\* is the error interval (10 s), not the normal 5 s.
C20_BackoffAfterScanError ==
    (ret.op = "monitor" /\ ret.scan_raised) => ret.sleep = ErrorInterval

\* C21: in simulated mode a getPositions or getClosedPositions request is a
\* read-only projection: open positions (current_price and profit included),
\* closed history, next_ticket and initial_balance are as before the call.
C21_ListsAreReadOnly ==
    [][ (simulator_mode /\ ret'.op \in {"getPositions", "getClosedPositions"})
            => UNCHANGED ledgerVars
      ]_vars

\* C22: the closed history is append-only and its records are immutable: every
\* step other than a reset keeps each record, with all its fields, at its place
\* in the history.
C22_ClosedHistoryAppendOnly ==
    [][ ret'.op # "reset" =>
           /\ Len(closed_positions') >= Len(closed_positions)
           /\ \A i \in DOMAIN closed_positions :
                 closed_positions'[i] = closed_positions[i]
      ]_vars

\* a price update moved an open position of a symbol away from the price at
\* which a record of the same symbol sits in the history
C22_Witness ==
    /\ ret.op = "updatePrice"
    /\ \E c \in Range(closed_positions), pos \in Range(positions) :
          /\ c.symbol = pos.symbol
          /\ c.current_price # pos.current_price
          /\ pos.profit # 0

\* C23: in every reachable state each open position's stored profit is the
\* price-model value (price_diff / tick_size) * volume * tick_value for its own
\* side, open_price, volume and stored current_price under the tick parameters
\* of its symbol's updates (0 at current_price = open_price before the first
\* update); a modify leaves this in place.
C23_ProfitMatchesPriceModel ==
    \A pos \in Range(positions) :
        LET p == TickParamsOf(pos.symbol)
            diff == IF pos.type = "BUY" THEN pos.current_price - pos.open_price
                                        ELSE pos.open_price - pos.current_price
        IN  pos.profit * p.tick_size = diff * 100000 * pos.volume * p.tick_value * 1000

\* a modify returned with a SELL position in profit and a BUY position at a loss
C23_Witness ==
    /\ ret.op = "modify"
    /\ ret.success
    /\ \E pos \in Range(positions) : pos.type = "SELL" /\ pos.profit > 0
    /\ \E pos \in Range(positions) : pos.type = "BUY" /\ pos.profit < 0

\* the fields of a position record an updatePrice does not write
StaticFields(pos) ==
    [f \in (DOMAIN pos) \ {"current_price", "profit"} |-> pos[f]]

\* C24: in every reachable state, updatePrice(symbol, price, ...) sets
\* current_price of every open position on that symbol and changes nothing but
\* their current_price and profit: positions on other symbols, the other
\* fields of the updated ones, the closed history, next_ticket and
\* initial_balance are unchanged and no position is opened or closed.
C24_UpdatePriceFrame ==
    \A symbol \in Symbols, price \in Prices :
        LET p == TickParamsOf(symbol)
            r == update_position_prices(Sim, symbol, price, p.contract_size,
                                        p.tick_value, p.tick_size)
        IN  /\ DOMAIN r.positions = DOMAIN positions
            /\ \A i \in DOMAIN positions :
                  IF positions[i].symbol = symbol
                  THEN /\ r.positions[i].current_price = price
                       /\ StaticFields(r.positions[i]) = StaticFields(positions[i])
                  ELSE r.positions[i] = positions[i]
            /\ r.closed_positions = closed_positions
            /\ r.next_ticket = next_ticket
            /\ r.initial_balance = initial_balance

\* an updatePrice returned with positions open on both symbols, one repriced
\* and one still at its open price
C24_Witness ==
    /\ ret.op = "updatePrice"
    /\ \E a \in Range(positions), b \in Range(positions) :
          /\ a.symbol # b.symbol
          /\ a.current_price # a.open_price
          /\ b.current_price = b.open_price
          /\ b.profit = 0

\* a request of a client of the facade is served
ClientRequestStep ==
    ret'.op \in {"connect", "toggleSimulatorMode", "executeOrder", "closePosition",
                 "modifyPosition", "getPositions", "getAccountInfo",
                 "getClosedPositions", "resetSimulator"}

FullyQuotedScan ==
    /\ simulator_mode /\ connected_to_mt5
    /\ \/ ret'.op = "getPositions"
       \/ ret'.op = "monitor" /\ ~ret'.scan_raised
    /\ \A sym \in Symbols : market[sym] # << >>

\* C26: after a simulated-mode scan with a tick for every symbol, every
\* position still open is valued on its own side: a BUY at the tick's bid, a
\* SELL at the tick's ask, also with both sides open on one symbol.
C26_ValuedOnOwnSide ==
    [][ FullyQuotedScan =>
           \A pos \in Range(positions') :
               pos.current_price = IF pos.type = "BUY"
                                   THEN market[pos.symbol][1].bid
                                   ELSE market[pos.symbol][1].ask
      ]_vars

\* C27: over restarts that load the persisted record, and absent a reset, an
\* open never returns a ticket that an earlier open returned, before or after
\* a restart.
C27_TicketsUniqueAcrossRestarts ==
    [][ ret'.op = "open" => ret'.ticket \notin issued ]_vars

\* C28: in every reachable ledger state, right after a load and right after a
\* reset included, next_ticket is greater than the ticket of every open and
\* every closed position.
C28_NextTicketAboveAll ==
    \A t \in OpenTickets \cup ClosedTickets : next_ticket > t

\* a new process loaded a record holding an open and a closed position
C28_Witness ==
    /\ ret.op = "init"
    /\ positions # << >>
    /\ closed_positions # << >>
    /\ app_settings.simulator = << Ledger(Sim) >>

\* C29: under every interleaving of ledger mutations and mode toggles, a step
\* that saves the ledger leaves the persisted mode flag as it was, and a step
\* that saves the mode flag leaves the persisted ledger section as it was.
C29_SectionsPersistedIndependently ==
    [][ IF ret'.op = "toggleSimulatorMode"
        THEN app_settings'.simulator = app_settings.simulator
        ELSE app_settings'.simulatorMode = app_settings.simulatorMode
      ]_vars

\* the mode was switched on, the ledger was saved with positions, and the mode
\* was switched off again: the record holds both the flag and the ledger
C29_Witness ==
    /\ ret.op = "toggleSimulatorMode"
    /\ ~ret.enabled
    /\ app_settings.simulatorMode = << FALSE >>
    /\ positions # << >>
    /\ app_settings.simulator = << Ledger(Sim) >>

\* the market price of the position's own side (bid for BUY, ask for SELL)
\* meets the position's take-profit or stop-loss condition
MarketHits(pos) ==
    /\ market[pos.symbol] # << >>
    /\ LET price == IF pos.type = "BUY" THEN market[pos.symbol][1].bid
                                        ELSE market[pos.symbol][1].ask
       IN  ShouldClose([pos EXCEPT !.current_price = price])

\* the ticket is open in simulated, connected mode and its market price meets
\* its close condition
AwaitingAutoClose(ticket) ==
    /\ simulator_mode /\ connected_to_mt5
    /\ \E pos \in Range(positions) : pos.ticket = ticket /\ MarketHits(pos)

\* C30: with the monitor scheduled fairly, no open position stays for ever in
\* simulated, connected mode with its own side's market price meeting its
\* take-profit or stop-loss condition: it is closed (by the monitor, or by a
\* client, or removed by a reset) or the condition ceases to hold.
C30_AutoCloseEventually ==
    \A ticket \in TicketIds : []<>(~AwaitingAutoClose(ticket))

====
